---- MODULE Spec2Model ----
(***************************************************************************)
(* JobTrust AI browser extension: the content-script analyzer              *)
(* (browser-extension/content.js, class JobTrustAnalyzer), the two         *)
(* background relays (browser-extension/background.js, background.js) and  *)
(* the two popups (tail of content.js, popup.js).                          *)
(*                                                                         *)
(* Strings of the page are modelled by their lengths, JavaScript values    *)
(* by records with one field per property the code reads; the value        *)
(* Undef stands for a property that is absent (undefined).                 *)
(***************************************************************************)
EXTENDS Integers, FiniteSets, Sequences, TLC

\* ------------------------------------------------------------------ bounds
MaxMsgs == 2        \* sendMessage calls awaiting their answer at one time
NumCards == 2       \* job cards of a listing page
MaxReqs == 2        \* analyses of the popup with tabs awaiting at one time
MaxTitles == 4      \* successful analyses of the popup of popup.js in one run
MaxTicks == 7       \* seconds the timers of scheduleAnalysis are followed for
MaxBurst == 3       \* triggers less than the delay apart that are counted
MaxClicks == 2      \* clicks on Analyze buttons followed on a listing page

Cards == 1..NumCards

\* --------------------------------------------------------- program constants
AutoMinText == 300      \* analyzeCurrentJob: jobData.text.length > 300
CardMinText == 50       \* card click handler: jobData.text.length > 50
FallbackMinText == 500  \* getDescriptionFallback: text.length > 500
LegitPercent == 80      \* createResultsBadge: analysis.confidence > 0.8
FloatingLegitPercent == 70  \* updateFloatingAnalysis: analysis.confidence > 0.7
CardShortDescription == 20  \* extractJobDataFromCard: description.length < 20
CardTextPrefix == 200   \* extractJobDataFromCard: cardText.substring(0, 200)

ManualMinText == 50     \* analyzeTextInput: text.length < 50
PopupMinText == 100     \* analyzeCurrentPage: extractedData.text.length > 100
MaxJobText == 4000      \* sendForAnalysis: jobText.substring(0, 4000)
PageShortDescription == 200  \* extractJobDataFromPage: description.length < 200
PageFallbackPrefix == 2000   \* extractJobDataFromPage: substring(0, 2000)
AnalysisDelay == 2000   \* scheduleAnalysis: setTimeout(..., 2000), in ms

Undef == "<undefined>"

\* ------------------------------------------------------------------- pages
\* The URLs the page visits, each with the substring tests getPageType and
\* extractJobData make on it.  u.url is window.location.href.
UrlIndeedView ==
  [url |-> "https://www.indeed.com/viewjob?jk=8a1b", host |-> "indeed.com",
   urlViewjob |-> TRUE, urlJobSlash |-> FALSE, urlJk |-> TRUE,
   pathJobsView |-> FALSE, pathJobCap |-> FALSE, pathDashJobs |-> FALSE,
   urlJobsSlash |-> FALSE, urlViewSlash |-> FALSE,
   pathJobsSearch |-> FALSE, pathJobsSlash |-> FALSE, pathViewSlash |-> FALSE,
   urlJobsQ |-> FALSE, urlJobsSearchQ |-> FALSE, urlJobSearch |-> FALSE,
   resultList |-> FALSE]

UrlLinkedInView ==
  [url |-> "https://www.linkedin.com/jobs/view/4012/", host |-> "linkedin.com",
   urlViewjob |-> FALSE, urlJobSlash |-> FALSE, urlJk |-> FALSE,
   pathJobsView |-> TRUE, pathJobCap |-> FALSE, pathDashJobs |-> FALSE,
   urlJobsSlash |-> TRUE, urlViewSlash |-> TRUE,
   pathJobsSearch |-> FALSE, pathJobsSlash |-> TRUE, pathViewSlash |-> TRUE,
   urlJobsQ |-> FALSE, urlJobsSearchQ |-> FALSE, urlJobSearch |-> FALSE,
   resultList |-> FALSE]

UrlLinkedInSearch ==
  [url |-> "https://www.linkedin.com/jobs/search/?keywords=qa", host |-> "linkedin.com",
   urlViewjob |-> FALSE, urlJobSlash |-> FALSE, urlJk |-> FALSE,
   pathJobsView |-> FALSE, pathJobCap |-> FALSE, pathDashJobs |-> FALSE,
   urlJobsSlash |-> TRUE, urlViewSlash |-> FALSE,
   pathJobsSearch |-> FALSE, pathJobsSlash |-> TRUE, pathViewSlash |-> FALSE,
   urlJobsQ |-> FALSE, urlJobsSearchQ |-> FALSE, urlJobSearch |-> FALSE,
   resultList |-> TRUE]

Pages == {UrlIndeedView, UrlLinkedInView, UrlLinkedInSearch}
Urls == {p.url : p \in Pages}
PageOf(u) == CHOOSE p \in Pages : p.url = u

\* The condition of the first `if` of getPageType: the detail patterns.
MatchesDetail(p) ==
  \/ p.urlViewjob
  \/ (p.urlJobSlash /\ p.urlJk)
  \/ p.pathJobsView
  \/ (p.pathJobCap /\ ~p.pathDashJobs)
  \/ (p.urlJobsSlash /\ p.urlViewSlash)

\* The condition of its second `if`: the listing patterns and the lookup of
\* a result-list container.
MatchesListing(p) ==
  \/ p.pathJobsSearch
  \/ (p.pathJobsSlash /\ ~p.pathViewSlash)
  \/ (p.pathJobCap /\ p.pathDashJobs)
  \/ p.urlJobsQ
  \/ p.urlJobsSearchQ
  \/ p.urlJobSearch
  \/ p.resultList

\* The two tests in the other order.
pageTypeListingFirst(p) ==
  IF MatchesListing(p) THEN "job-listing"
  ELSE IF MatchesDetail(p) THEN "job-detail"
  ELSE "unknown"

\* The body of getPageType() for the tests p: detail first, then listing.
pageType(p) ==
  IF MatchesDetail(p) THEN "job-detail"
  ELSE IF MatchesListing(p) THEN "job-listing"
  ELSE "unknown"

\* getPageType() on the page with URL u.
getPageType(u) == pageType(PageOf(u))

\* ------------------------------------------------------------- extraction
\* What the selectors find in the document when extractJobData runs: the
\* lengths of the trimmed texts (0 = no element or empty text).
\*   title, company, siteDesc : the hostname-specific selectors
\*   h1                       : the generic title selectors
\*   main                     : the first generic content container
Docs ==
  { [title |-> 0,  company |-> 0,  siteDesc |-> 0,   h1 |-> 0,  main |-> 0],
    [title |-> 20, company |-> 10, siteDesc |-> 231, h1 |-> 20, main |-> 0],
    [title |-> 20, company |-> 10, siteDesc |-> 232, h1 |-> 20, main |-> 0],
    [title |-> 20, company |-> 10, siteDesc |-> 4100, h1 |-> 20, main |-> 0],
    [title |-> 0,  company |-> 0,  siteDesc |-> 0,   h1 |-> 12, main |-> 500],
    [title |-> 0,  company |-> 0,  siteDesc |-> 0,   h1 |-> 12, main |-> 501] }

KnownHosts == {"indeed.com", "linkedin.com", "glassdoor.com"}

\* getDescriptionFallback(): the container's text if longer than 500.
getDescriptionFallback(d) ==
  IF d.main > FallbackMinText THEN d.main ELSE 0

\* The fixed part of the text template of extractJobData:
\* "JOB TITLE: " + " | COMPANY: " + " | DESCRIPTION: ".
PageTemplateLen == 11 + 12 + 16

\* extractJobData(): the lengths of the fields of the record it returns.
extractJobData(u, d) ==
  LET known       == PageOf(u).host \in KnownHosts
      siteTitle   == IF known THEN d.title ELSE 0
      company     == IF known THEN d.company ELSE 0
      siteDesc    == IF known THEN d.siteDesc ELSE 0
      title       == IF siteTitle = 0 THEN d.h1 ELSE siteTitle
      description == IF siteDesc = 0 THEN getDescriptionFallback(d) ELSE siteDesc
  IN [title |-> title, company |-> company, description |-> description,
      text |-> PageTemplateLen + title + company + description, url |-> u]

\* What the selectors and the text heuristics find in a card when
\* extractJobDataFromCard runs (lengths; each field already falls back to
\* its 'Unknown ...' / '... not specified' literal inside the heuristic).
\* A card with no element for any selector and no text: every heuristic
\* returns its literal ('Unknown Position', 'Unknown Company', 'Location
\* not specified', 'Salary not specified', 'Job details not available in
\* preview').
EmptyCard ==
  [title |-> 16, company |-> 15, location |-> 22, salary |-> 20,
   description |-> 36, cardText |-> 0]

CardDocs ==
  { EmptyCard,
    [title |-> 16, company |-> 15, location |-> 22, salary |-> 20,
     description |-> 36, cardText |-> 120],
    [title |-> 15, company |-> 9, location |-> 10, salary |-> 8,
     description |-> 12, cardText |-> 400] }

Min(a, b) == IF a < b THEN a ELSE b

\* "JOB TITLE: " + " | COMPANY: " + " | LOCATION: " + " | SALARY: " +
\* " | DESCRIPTION: "
CardTemplateLen == 11 + 12 + 13 + 11 + 16

\* extractJobDataFromCard(card)
extractJobDataFromCard(c) ==
  LET description == IF c.description < CardShortDescription
                     THEN Min(c.cardText, CardTextPrefix)
                     ELSE c.description
  IN [title |-> c.title, company |-> c.company, description |-> description,
      text |-> CardTemplateLen + c.title + c.company + c.location
               + c.salary + description]

\* ------------------------------------------------------ JavaScript values
\* A value that reaches a presenter: t is its type, the other fields are
\* the properties the presenters read (Undef = absent; confidence -1 = not
\* a number; reasoning "text" = a string, "keywords" = a string of more
\* than 200 characters that mentions 'requirements', "nonstring" = a
\* truthy value that is no string).  tagged: background.js has set jobTitle / jobCompany on it.
Value(t, error, prediction, confidence, reasoning) ==
  [t |-> t, error |-> error, prediction |-> prediction,
   confidence |-> confidence, reasoning |-> reasoning, tagged |-> FALSE]

Undefined == Value("undefined", Undef, Undef, -1, Undef)
Null == Value("null", Undef, Undef, -1, Undef)
ErrorObject(msg) == Value("object", msg, Undef, -1, Undef)

\* JSON bodies the service answers with under a success status.
Bodies ==
  { Value("object", Undef, "fake", 95, "text"),
    Value("object", Undef, "real", 81, "text"),
    Value("object", "Model not loaded", Undef, -1, Undef),
    Value("object", Undef, Undef, -1, Undef),
    Value("object", Undef, "real", 90, "nonstring"),
    Value("object", Undef, "real", 95, "keywords"),
    Null }

\* How the fetch of a relay or popup settles.
FetchOutcomes ==
  { [kind |-> "reject", status |-> 0,   body |-> Undefined],
    [kind |-> "status", status |-> 500, body |-> Undefined],
    [kind |-> "badjson", status |-> 200, body |-> Undefined] }
  \cup { [kind |-> "json", status |-> 200, body |-> b] : b \in Bodies }

\* JavaScript truthiness of a string property.
Truthy(s) == s # Undef /\ s # ""

\* The presenters' test `!analysis || analysis.error`.
IsErrorResponse(v) == v.t \in {"undefined", "null"} \/ Truthy(v.error)


\* ------------------------------------------------------------------ relays
\* The listener without its catch: a failed fetch is never answered.
extRelayCallsNoCatch(o) ==
  IF o.kind = "json" THEN << o.body >> ELSE << >>

\* browser-extension/background.js: the sendResponse calls, in order, that
\* the promise chain of the listener makes once the fetch has settled as o.
extRelayCalls(o) ==
  CASE o.kind = "reject"  ->
         << Value("object", "Failed to fetch", "error", 0, "text") >>
    [] o.kind = "status"  ->
         << Value("object", "Server error: 500", "error", 0, "text") >>
    [] o.kind = "badjson" ->
         << Value("object", "Unexpected token < in JSON at position 0",
                  "error", 0, "text") >>
    [] OTHER -> << o.body >>

\* background.js: analyzeJob(jobText) rethrows every failure as one Error;
\* the listener then sets two properties on the result (a TypeError when
\* the body is null) and answers, or answers {error} from its catch.
rootRelayCalls(o) ==
  IF o.kind # "json"
  THEN << ErrorObject("Failed to connect to analysis service") >>
  ELSE IF o.body.t = "null"
  THEN << ErrorObject("Cannot set properties of null (setting 'jobTitle')") >>
  ELSE << [o.body EXCEPT !.tagged = TRUE] >>

RelayKinds == {"extension", "root"}

relayCalls(kind, o) ==
  IF kind = "extension" THEN extRelayCalls(o) ELSE rootRelayCalls(o)

\* ------------------------------------------------------------------- state
VARIABLES
  relay,            \* which background script answers: "extension" | "root"
  url,              \* window.location.href
  lastUrl,          \* currentUrl, the closure variable of setupUrlChangeListener
  analyzedUrls,     \* this.analyzedUrls
  isAnalyzing,      \* this.isAnalyzing
  analysisTimeout,  \* TRUE while the timer of scheduleAnalysis is pending
  dom,              \* the injected elements: loading, badge, floating
  buttons,          \* per card: "none" | "enabled" | "disabled"
  msgs,             \* sendMessage calls that have not resumed their caller
  popup,            \* the popup with tabs (tail of browser-extension/content.js)
  simple,           \* the popup of popup.js
  last,             \* the branch the last handler took
  arg               \* the value the presenters or an extractor are applied to,
                    \* where one function of the program is examined alone

vars == << relay, arg, url, lastUrl, analyzedUrls, isAnalyzing, analysisTimeout,
           dom, buttons, msgs, popup, simple, last >>

\* ----------------------------------------------------------- page elements
\* jobContent: containsJobContent(element) holds for the badge.
NoBadge == [kind |-> "none", verdict |-> Undef, jobContent |-> FALSE]
NoFloating == [id |-> 0, view |-> "none", verdict |-> Undef]

\* The page with no injected element.  loading, badge and floating are the
\* elements document.getElementById returns for the three ids (the first
\* in document order); nLoading, nBadge and nFloating count the elements
\* of the page that carry each id.  notify: a mutation record whose added
\* node is an injected element with job content awaits the callback of
\* detailObserver.
NoDom ==
  [loading |-> "none", badge |-> NoBadge, floating |-> NoFloating,
   nLoading |-> 0, nBadge |-> 0, nFloating |-> 0, notify |-> FALSE]

\* element.remove() of the element getElementById found, if any.
removeOne(n) == IF n > 0 THEN n - 1 ELSE 0

\* removeExistingIndicators()
removeExistingIndicators(d) ==
  [loading   |-> IF d.nLoading > 1 THEN d.loading ELSE "none",
   badge     |-> IF d.nBadge > 1 THEN d.badge ELSE NoBadge,
   floating  |-> IF d.nFloating > 1 THEN d.floating ELSE NoFloating,
   nLoading  |-> removeOne(d.nLoading),
   nBadge    |-> removeOne(d.nBadge),
   nFloating |-> removeOne(d.nFloating),
   notify    |-> d.notify]

\* document.body.appendChild of an element with one of the three ids.
appendLoading(d, e) ==
  [d EXCEPT !.loading = IF d.nLoading = 0 THEN e ELSE @, !.nLoading = @ + 1]

appendBadge(d, e) ==
  [d EXCEPT !.badge = IF d.nBadge = 0 THEN e ELSE @, !.nBadge = @ + 1,
            !.notify = @ \/ e.jobContent]

appendFloating(d, e) ==
  [d EXCEPT !.floating = IF d.nFloating = 0 THEN e ELSE @, !.nFloating = @ + 1]

\* showLoadingIndicator(): remove the three elements, append #jobtrust-loading.
showLoadingIndicator(d) ==
  appendLoading(removeExistingIndicators(d), "extracting")

\* updateLoadingToAnalyzing(): rewrite the span of the loading element.
updateLoadingToAnalyzing(d) ==
  IF d.loading # "none" THEN [d EXCEPT !.loading = "analyzing"] ELSE d

\* showError(message): remove the three elements, append an error badge.
showError(d) ==
  appendBadge(removeExistingIndicators(d),
              [kind |-> "error", verdict |-> Undef, jobContent |-> FALSE])

\* The status createResultsBadge renders for a result.
badgeVerdict(analysis) ==
  IF analysis.prediction = "fake" THEN "scam"
  ELSE IF analysis.confidence > LegitPercent THEN "legit"
  ELSE "suspicious"

\* cleanReasoning(reasoning) throws when reasoning is truthy and has no
\* replace method.
cleanReasoningThrows(analysis) == analysis.reasoning = "nonstring"

\* containsJobContent(node) for the badge of a result: its text is the
\* fixed markup and the reasoning, and it matches when that text is longer
\* than 200 characters and holds one of the job keywords.
containsJobContent(analysis) == analysis.reasoning = "keywords"

\* createResultsBadge(analysis, jobData, isScam, confidencePercent)
createResultsBadge(analysis) ==
  [kind |-> "result", verdict |-> badgeVerdict(analysis),
   jobContent |-> containsJobContent(analysis)]

\* displayResults(analysis, jobData) when it returns normally.
displayResults(d, analysis) ==
  IF IsErrorResponse(analysis)
  THEN showError(d)
  ELSE appendBadge(removeExistingIndicators(d), createResultsBadge(analysis))

\* displayResults throws (after removeExistingIndicators) exactly when
\* createResultsBadge does.
displayResultsThrows(analysis) ==
  ~IsErrorResponse(analysis) /\ cleanReasoningThrows(analysis)


\* updateFloatingAnalysis: the status it renders for a result.
floatingVerdict(analysis) ==
  IF analysis.prediction = "fake" THEN "scam"
  ELSE IF analysis.confidence > FloatingLegitPercent THEN "safe"
  ELSE "caution"

\* updateFloatingAnalysis(floatingDiv, analysis, jobData): the new content
\* of the panel floatingDiv.
updateFloatingAnalysis(panel, analysis) ==
  IF IsErrorResponse(analysis)
  THEN [panel EXCEPT !.view = "error", !.verdict = Undef]
  ELSE [panel EXCEPT !.view = "result", !.verdict = floatingVerdict(analysis)]

\* ---------------------------------------------------------------- messages
\* chrome.runtime.sendMessage({action: 'analyzeJob', ...}) of one caller.
\*   id    the number of the call among those of its caller: the card for
\*         a call of showFloatingAnalysis (a card with a call awaiting has
\*         its button disabled), the smallest free number otherwise
\*   src   "auto" (analyzeCurrentJob) or "card" (showFloatingAnalysis)
\*   url   currentUrl of analyzeCurrentJob (Undef for a card)
\*   card  the card clicked (0 for analyzeCurrentJob)
\*   jobText  the length of the jobText sent
\*   st    "sent"      on its way to the relay
\*         "fetching"  the relay's listener has run, its fetch is pending
\*         "answered"  the relay has called sendResponse
\*         "closed"    the port closed with no answer: resolves undefined
\*         "rejected"  the promise of sendMessage rejects
\*   outcome  how the fetch of the relay settled
\*   calls the sendResponse calls of the relay, in order
\*   ip    the loading element present when the analysis started is still
\*         in the page
Message(id, src, u, card, jobData, ip) ==
  [id |-> id, src |-> src, url |-> u, card |-> card, jobText |-> jobData.text,
   st |-> "sent", outcome |-> "none", calls |-> << >>, ip |-> ip]

\* The number of a new call: the smallest one no awaiting call has.
FreeId(ms) ==
  CHOOSE i \in 1..(Cardinality(ms) + 1) :
    /\ \A m \in ms : m.id # i
    /\ \A j \in 1..(i - 1) : \E m \in ms : m.id = j

\* The same call of sendMessage, at two moments.
SameCall(m, n) == m.id = n.id /\ m.src = n.src

\* Every loading element of the page has been removed.
Detached(ms) == { [m EXCEPT !.ip = FALSE] : m \in ms }

\* The value the awaiting caller resumes with.
Response(m) == IF m.st = "answered" THEN Head(m.calls) ELSE Undefined

\* ------------------------------------------------------------------- popups
NoView == [kind |-> "none", verdict |-> Undef, analysis |-> Undefined]

\* The popup with tabs once DOMContentLoaded has run, opened on a supported
\* job site.
\*   loading, shown : loadingDiv / resultDiv are displayed
\*   view           : what resultDiv contains
\*   status         : manualStatus shows the validation message
\*   reqs           : the analyses that await their extraction or fetch
\*   latest         : the analysis started last (0: none yet)
\*   shownOf        : the analysis whose outcome resultDiv holds (0: none)
PopupInit ==
  [loading |-> FALSE, shown |-> FALSE, view |-> NoView, status |-> FALSE,
   reqs |-> {}, latest |-> 0, shownOf |-> 0]

\* The popup of popup.js once DOMContentLoaded has run, on a job page.
\*   busy   : where the click handler is: "idle" | "extracting" | "fetching"
\*   titles : the job-title elements inserted before resultText
\*   jobText : the length of the text it extracted
SimpleInit ==
  [busy |-> "idle", loading |-> FALSE, shown |-> FALSE, view |-> NoView,
   titles |-> 0, disabled |-> FALSE, jobText |-> 0]

\* --------------------------------------------------------------------- Init
\* No function is examined alone.
NoArg == [t |-> "none"]

\* new JobTrustAnalyzer(): constructor and init(); the popups as they open.
InitAnalyzer ==
  /\ relay \in RelayKinds
  /\ url \in Urls
  /\ lastUrl = url
  /\ analyzedUrls = {}
  /\ isAnalyzing = FALSE
  /\ analysisTimeout = (getPageType(url) = "job-detail")
  /\ dom = IF getPageType(url) = "job-detail"
           THEN showLoadingIndicator(NoDom)
           ELSE NoDom
  /\ buttons = [c \in Cards |->
                  IF getPageType(url) = "job-listing" THEN "enabled" ELSE "none"]
  /\ msgs = {}
  /\ popup = PopupInit
  /\ simple = SimpleInit
  /\ last = "init"

Init ==
  /\ InitAnalyzer
  /\ arg = NoArg

\* ----------------------------------------------------------------- triggers
\* addAnalyzeButtonsToPreviews(): a button for every card without one.
addAnalyzeButtonsToPreviews(b) ==
  [c \in Cards |-> IF b[c] = "none" THEN "enabled" ELSE b[c]]

\* The callback of detailObserver for a mutation that adds a node with job
\* content: showLoadingIndicator(); scheduleAnalysis().
DetailMutation ==
  /\ dom' = showLoadingIndicator(dom)
  /\ analysisTimeout' = TRUE
  /\ msgs' = Detached(msgs)
  /\ last' = "other"
  /\ UNCHANGED << popup, simple, relay, arg, url, lastUrl, analyzedUrls, isAnalyzing, buttons >>

\* The callback of detailObserver for the mutation record of an injected
\* element with job content: showLoadingIndicator(); scheduleAnalysis().
InjectedMutation ==
  /\ dom.notify
  /\ dom' = [showLoadingIndicator(dom) EXCEPT !.notify = FALSE]
  /\ analysisTimeout' = TRUE
  /\ msgs' = Detached(msgs)
  /\ last' = "self-trigger"
  /\ UNCHANGED << popup, simple, relay, arg, url, lastUrl, analyzedUrls, isAnalyzing, buttons >>

\* The page changes its URL without reloading the document.
Navigate(u) ==
  /\ u # url
  /\ url' = u
  /\ last' = "other"
  /\ UNCHANGED << popup, simple, relay, arg, lastUrl, analyzedUrls, isAnalyzing, analysisTimeout,
                  dom, buttons, msgs >>

\* The setInterval callback of setupUrlChangeListener, when the URL differs.
UrlChange ==
  /\ url # lastUrl
  /\ lastUrl' = url
  /\ last' = "other"
  /\ IF getPageType(url) = "job-detail"
     THEN /\ dom' = showLoadingIndicator(dom)
          /\ analysisTimeout' = TRUE
          /\ msgs' = Detached(msgs)
          /\ UNCHANGED buttons
     ELSE IF getPageType(url) = "job-listing"
     THEN /\ buttons' = addAnalyzeButtonsToPreviews(buttons)
          /\ UNCHANGED << dom, analysisTimeout, msgs >>
     ELSE UNCHANGED << dom, analysisTimeout, msgs, buttons >>
  /\ UNCHANGED << popup, simple, relay, arg, url, analyzedUrls, isAnalyzing >>

\* ------------------------------------------------------- analyzeCurrentJob
\* The calls of analyzeCurrentJob that await their answer.
InFlightAuto == { m \in msgs : m.src = "auto" }

\* The URL marked as done read from the location when the answer arrives.
currentUrlAtResponse(m) == url

\* `const currentUrl = window.location.href;` of the invocation that sent
\* m: the URL at its start.
currentUrl(m) == m.url

\* The flag left as it is after the guards.
isAnalyzingNotSet == FALSE

\* `this.isAnalyzing = true;` after both guards.
isAnalyzingSet == TRUE

\* The in-flight guard left out.
GuardInFlightOff == FALSE

\* `if (this.isAnalyzing) return;`
GuardInFlight == isAnalyzing

\* The dedup guard left out.
GuardDedupOff(u) == FALSE

\* `if (this.analyzedUrls.has(currentUrl))`
GuardDedup(u) == u \in analyzedUrls

\* `jobData.text && jobData.text.length > 300`
pageTextSufficient(jobData) == jobData.text > AutoMinText

\* The set replaced by the last analyzed URL instead of extended.
markDoneReplace(urls, u) == {u}

\* `this.analyzedUrls.add(currentUrl)`
markDone(urls, u) == urls \cup {u}

\* The flag left set at the end of an attempt.
finallyMissing == TRUE

\* `finally { this.isAnalyzing = false; }`
finallyIsAnalyzing == FALSE

\* The timer of scheduleAnalysis fires: analyzeCurrentJob() up to its await
\* (or to its end, when it does not send).  d is what the selectors find in
\* the document.
analyzeCurrentJob(d) ==
  /\ analysisTimeout
  /\ analysisTimeout' = FALSE
  /\ IF GuardInFlight
     THEN /\ last' = "in-flight"
          /\ UNCHANGED << analyzedUrls, isAnalyzing, dom, msgs >>
     ELSE IF GuardDedup(url)
     THEN /\ dom' = removeExistingIndicators(dom)
          /\ msgs' = Detached(msgs)
          /\ last' = "dedup"
          /\ UNCHANGED << analyzedUrls, isAnalyzing >>
     ELSE LET jobData == extractJobData(url, d) IN
          IF pageTextSufficient(jobData)
          THEN /\ Cardinality(msgs) < MaxMsgs
               /\ isAnalyzing' = isAnalyzingSet
               /\ dom' = updateLoadingToAnalyzing(dom)
               /\ msgs' = msgs \cup
                    {Message(FreeId(InFlightAuto), "auto", url, 0, jobData,
                             dom.loading # "none")}
               /\ last' = "sent"
               /\ UNCHANGED analyzedUrls
          ELSE /\ dom' = showError(updateLoadingToAnalyzing(dom))
               /\ isAnalyzing' = finallyIsAnalyzing
               /\ msgs' = Detached(msgs)
               /\ last' = "insufficient"
               /\ UNCHANGED analyzedUrls
  /\ UNCHANGED << popup, simple, relay, arg, url, lastUrl, buttons >>

\* analyzeCurrentJob() resumes after `await chrome.runtime.sendMessage(...)`:
\* displayResults and analyzedUrls.add, or the catch block; then finally.
analyzeCurrentJobResume(m) ==
  /\ m \in msgs
  /\ m.src = "auto"
  /\ m.st \in {"answered", "closed", "rejected"}
  /\ IF m.st = "rejected"
     THEN /\ dom' = showError(dom)
          /\ last' = "rejected"
          /\ UNCHANGED analyzedUrls
     ELSE IF displayResultsThrows(Response(m))
     THEN /\ dom' = showError(removeExistingIndicators(dom))
          /\ last' = "threw"
          /\ UNCHANGED analyzedUrls
     ELSE /\ dom' = displayResults(dom, Response(m))
          /\ analyzedUrls' = markDone(analyzedUrls, currentUrl(m))
          /\ last' = IF IsErrorResponse(Response(m)) THEN "error-response"
                     ELSE "result"
  /\ isAnalyzing' = finallyIsAnalyzing
  /\ msgs' = Detached(msgs \ {m})
  /\ UNCHANGED << popup, simple, relay, arg, url, lastUrl, analysisTimeout, buttons >>

\* -------------------------------------------------------------------- relay
\* The onMessage listener of the relay runs for the message: it starts the
\* fetch and returns true.
RelayReceive(m) ==
  /\ m \in msgs
  /\ m.st = "sent"
  /\ msgs' = (msgs \ {m}) \cup {[m EXCEPT !.st = "fetching"]}
  /\ last' = "other"
  /\ UNCHANGED << popup, simple, relay, arg, url, lastUrl, analyzedUrls, isAnalyzing,
                  analysisTimeout, dom, buttons >>

\* The fetch of the relay settles as o and the promise chain of the listener
\* runs to its end.
RelaySettle(m, o) ==
  /\ m \in msgs
  /\ m.st = "fetching"
  /\ m.outcome = "none"
  /\ LET calls == relayCalls(relay, o) IN
     msgs' = (msgs \ {m}) \cup
       {[m EXCEPT !.outcome = o.kind, !.calls = calls,
                  !.st = IF calls = << >> THEN "fetching" ELSE "answered"]}
  /\ last' = "other"
  /\ UNCHANGED << popup, simple, relay, arg, url, lastUrl, analyzedUrls, isAnalyzing,
                  analysisTimeout, dom, buttons >>

\* No listener receives the message: the promise of sendMessage rejects, or
\* the port closes and it resolves with undefined.
PortFails(m, how) ==
  /\ m \in msgs
  /\ m.st = "sent"
  /\ how \in {"closed", "rejected"}
  /\ msgs' = (msgs \ {m}) \cup {[m EXCEPT !.st = how]}
  /\ last' = "other"
  /\ UNCHANGED << popup, simple, relay, arg, url, lastUrl, analyzedUrls, isAnalyzing,
                  analysisTimeout, dom, buttons >>

\* -------------------------------------------------------------------- cards
\* The click handler gated like the automatic analysis.
cardTextSufficientGated(jobData) ==
  jobData.text > CardMinText /\ ~isAnalyzing /\ url \notin analyzedUrls

\* `jobData.text && jobData.text.length > 50` of the click handler.
cardTextSufficient(jobData) == jobData.text > CardMinText

\* showFloatingAnalysis with the panel in the page left where it is.
keepExistingFloating(d) == d

\* `if (existingFloating) existingFloating.remove();` of showFloatingAnalysis
removeExistingFloating(d) ==
  [d EXCEPT !.floating = IF d.nFloating > 1 THEN @ ELSE NoFloating,
            !.nFloating = removeOne(@)]

\* The click handler of the Analyze button of a card, up to the await of
\* showFloatingAnalysis (a disabled button receives no click).  cd is what
\* the selectors and heuristics find in the card.
CardClick(c, cd) ==
  /\ buttons[c] = "enabled"
  /\ LET jobData == extractJobDataFromCard(cd) IN
     IF cardTextSufficient(jobData)
     THEN /\ Cardinality(msgs) < MaxMsgs
          /\ buttons' = [buttons EXCEPT ![c] = "disabled"]
          /\ dom' = appendFloating(removeExistingFloating(dom),
                                    [id |-> c, view |-> "analyzing",
                                     verdict |-> Undef])
          /\ msgs' = msgs \cup
               {Message(c, "card", Undef, c, jobData, FALSE)}
          /\ last' = "card-sent"
     ELSE /\ last' = "card-insufficient"
          /\ UNCHANGED << buttons, dom, msgs >>
  /\ UNCHANGED << popup, simple, relay, arg, url, lastUrl, analyzedUrls, isAnalyzing, analysisTimeout >>

\* The panel looked up in the page when the answer arrives.
floatingDivLookup(m, d) == d.floating.id

\* `floatingDiv`, the constant of showFloatingAnalysis that its code after
\* the await writes into: the panel this call created.
floatingDiv(m, d) == m.id

\* The button restored after updateFloatingAnalysis only, not in the catch
\* block.
restoreButtonInTryOnly(m, b) ==
  IF m.st = "rejected" THEN b ELSE [b EXCEPT ![m.card] = "enabled"]

\* `button.innerHTML = ...; button.disabled = false;` at the end of the try
\* block and of the catch block of showFloatingAnalysis.
restoreButton(m, b) == [b EXCEPT ![m.card] = "enabled"]

\* showFloatingAnalysis resumes after its await: it writes into the panel
\* it created (in the page only while that panel is still attached) and
\* restores the button.
showFloatingAnalysisResume(m) ==
  /\ m \in msgs
  /\ m.src = "card"
  /\ m.st \in {"answered", "closed", "rejected"}
  /\ dom' = IF dom.floating.id # floatingDiv(m, dom) THEN dom
            ELSE IF m.st = "rejected"
            THEN [dom EXCEPT !.floating.view = "error", !.floating.verdict = Undef]
            ELSE [dom EXCEPT !.floating = updateFloatingAnalysis(@, Response(m))]
  /\ buttons' = restoreButton(m, buttons)
  /\ msgs' = msgs \ {m}
  /\ last' = "card-done"
  /\ UNCHANGED << popup, simple, relay, arg, url, lastUrl, analyzedUrls, isAnalyzing, analysisTimeout >>

\* --------------------------------------------------------------------- user
\* The Close button of the result badge or of the error badge.
CloseBadge ==
  /\ dom.badge.kind # "none"
  /\ dom' = [dom EXCEPT !.badge = NoBadge, !.nBadge = removeOne(@)]
  /\ last' = "other"
  /\ UNCHANGED << popup, simple, relay, arg, url, lastUrl, analyzedUrls, isAnalyzing,
                  analysisTimeout, buttons, msgs >>

\* The Close button of the floating panel (result and error views).
CloseFloating ==
  /\ dom.floating.view \in {"result", "error"}
  /\ dom' = [dom EXCEPT !.floating = NoFloating, !.nFloating = removeOne(@)]
  /\ last' = "other"
  /\ UNCHANGED << popup, simple, relay, arg, url, lastUrl, analyzedUrls, isAnalyzing,
                  analysisTimeout, buttons, msgs >>

\* ----------------------------------------------------- the popup with tabs
\* What extractJobDataFromPage finds in the tab: lengths of the trimmed
\* texts of the hostname selectors, of the text of the main container (or
\* of the body) and of the URL.
PopupDocs ==
  { [title |-> 0,  company |-> 0,  siteDesc |-> 0,   main |-> 10,   url |-> 40],
    [title |-> 20, company |-> 10, siteDesc |-> 199, main |-> 5000, url |-> 40],
    [title |-> 20, company |-> 10, siteDesc |-> 200, main |-> 5000, url |-> 40] }

\* "JOB TITLE: " + "\nCOMPANY: " + "\nURL: " + "\nDESCRIPTION: "
PopupTemplateLen == 11 + 10 + 6 + 14

\* extractJobDataFromPage(): the lengths of the fields of its record.
extractJobDataFromPage(d) ==
  LET description == IF d.siteDesc < PageShortDescription
                     THEN Min(d.main, PageFallbackPrefix)
                     ELSE d.siteDesc
  IN [title |-> d.title, company |-> d.company, description |-> description,
      text |-> PopupTemplateLen + d.title + d.company + d.url + description]

\* The lengths of the trimmed text of the manual input.
ManualLens == {0, 49, 50, 4001}

\* showLoading(message)
popupShowLoading(p) == [p EXCEPT !.loading = TRUE, !.shown = FALSE]

\* showResult(analysis, jobData): the status is one of two.
popupVerdict(analysis) ==
  IF analysis.prediction = "fake" THEN "scam" ELSE "legit"

popupShowResult(p, analysis) ==
  [p EXCEPT !.loading = FALSE, !.shown = TRUE,
            !.view = [kind |-> "result", verdict |-> popupVerdict(analysis),
                      analysis |-> analysis]]

\* showResult throws on `analysis.prediction` of null and on
\* `analysis.reasoning.replace` of a value that is no string.
popupShowResultThrows(analysis) ==
  analysis.t \in {"null", "undefined"} \/ analysis.reasoning = "nonstring"

\* showError(message) of the popup.
popupShowError(p) ==
  [p EXCEPT !.loading = FALSE, !.shown = TRUE,
            !.view = [kind |-> "error", verdict |-> Undef,
                      analysis |-> Undefined]]

\* The request body of sendForAnalysis: job_text is jobText.substring(0, 4000).
popupJobText(len) == Min(len, MaxJobText)

\* The test with the text of exactly the minimum length rejected too.
manualTextTooShortAtMin(len) == len <= ManualMinText

\* `if (text.length < 50)` of analyzeTextInput
manualTextTooShort(len) == len < ManualMinText

\* analyzeTextInput(): the click on analyzeTextBtn, up to the await of fetch.
analyzeTextInput(len) ==
  /\ IF manualTextTooShort(len)
     THEN popup' = [popup EXCEPT !.status = TRUE]
     ELSE /\ Cardinality(popup.reqs) < MaxReqs
          /\ popup' = [popupShowLoading(popup) EXCEPT
                 !.latest = FreeId(popup.reqs),
                 !.reqs = @ \cup
                 {[id |-> FreeId(popup.reqs), st |-> "fetching",
                   jobText |-> popupJobText(len)]}]
  /\ last' = "popup"
  /\ UNCHANGED << simple, relay, arg, url, lastUrl, analyzedUrls, isAnalyzing,
                  analysisTimeout, dom, buttons, msgs >>

\* analyzeCurrentPage(): the click on analyzeCurrentPage, up to its await.
analyzeCurrentPage ==
  /\ Cardinality(popup.reqs) < MaxReqs
  /\ popup' = [popupShowLoading(popup) EXCEPT
         !.latest = FreeId(popup.reqs),
         !.reqs = @ \cup
         {[id |-> FreeId(popup.reqs), st |-> "extracting", jobText |-> 0]}]
  /\ last' = "popup"
  /\ UNCHANGED << simple, relay, arg, url, lastUrl, analyzedUrls, isAnalyzing,
                  analysisTimeout, dom, buttons, msgs >>

\* analyzeCurrentPage() resumes with the result of executeScript: d, or a
\* rejection (ok = FALSE).
analyzeCurrentPageResume(r, ok, d) ==
  /\ r \in popup.reqs
  /\ r.st = "extracting"
  /\ LET jobData == extractJobDataFromPage(d) IN
     IF ok /\ jobData.text > PopupMinText
     THEN popup' = [popupShowLoading(popup) EXCEPT !.reqs = (@ \ {r}) \cup
            {[r EXCEPT !.st = "fetching", !.jobText = popupJobText(jobData.text)]}]
     ELSE popup' = [popupShowError(popup) EXCEPT !.reqs = @ \ {r},
                                               !.shownOf = r.id]
  /\ last' = "popup"
  /\ UNCHANGED << simple, relay, arg, url, lastUrl, analyzedUrls, isAnalyzing,
                  analysisTimeout, dom, buttons, msgs >>

\* sendForAnalysis resumes: its fetch has settled as o.
sendForAnalysis(r, o) ==
  /\ r \in popup.reqs
  /\ r.st = "fetching"
  /\ LET p == [popup EXCEPT !.reqs = @ \ {r}, !.shownOf = r.id] IN
     IF o.kind # "json" \/ popupShowResultThrows(o.body)
     THEN popup' = popupShowError(p)
     ELSE popup' = popupShowResult(p, o.body)
  /\ last' = "popup"
  /\ UNCHANGED << simple, relay, arg, url, lastUrl, analyzedUrls, isAnalyzing,
                  analysisTimeout, dom, buttons, msgs >>

\* The click on a tab button.
TabSwitch ==
  /\ popup' = [popup EXCEPT !.loading = FALSE, !.shown = FALSE]
  /\ last' = "popup"
  /\ UNCHANGED << simple, relay, arg, url, lastUrl, analyzedUrls, isAnalyzing,
                  analysisTimeout, dom, buttons, msgs >>

\* The click on analyzeAnotherBtn (result view) or tryAgainBtn (error view).
PopupDismiss ==
  /\ popup.shown
  /\ popup.view.kind # "none"
  /\ popup' = IF popup.view.kind = "result"
              THEN [popup EXCEPT !.loading = FALSE, !.shown = FALSE]
              ELSE [popup EXCEPT !.shown = FALSE]
  /\ last' = "popup"
  /\ UNCHANGED << simple, relay, arg, url, lastUrl, analyzedUrls, isAnalyzing,
                  analysisTimeout, dom, buttons, msgs >>

PopupNext ==
  \/ \E len \in ManualLens : analyzeTextInput(len)
  \/ analyzeCurrentPage
  \/ \E r \in popup.reqs, ok \in BOOLEAN, d \in PopupDocs :
       analyzeCurrentPageResume(r, ok, d)
  \/ \E r \in popup.reqs, o \in FetchOutcomes : sendForAnalysis(r, o)
  \/ TabSwitch
  \/ PopupDismiss

InitPopup ==
  /\ Init
  /\ relay = "extension"
  /\ url = UrlIndeedView.url

PopupSpec == InitPopup /\ [][PopupNext]_vars

\* ------------------------------------------------------ the popup of popup.js
\* What extractJobData of popup.js finds in the tab (innerText lengths).
SimpleDocs ==
  { [title |-> 0,  company |-> 0,  description |-> 0],
    [title |-> 20, company |-> 10, description |-> 5000] }

\* "TITLE: " + " | COMPANY: " + " | DESCRIPTION: "
SimpleTemplateLen == 7 + 12 + 16

\* extractJobData() of popup.js
simpleExtractJobData(d) ==
  [title |-> d.title, company |-> d.company, description |-> d.description,
   text |-> SimpleTemplateLen + d.title + d.company + d.description]

\* displayResult: the three result styles.
simpleVerdict(result) ==
  IF result.prediction = "fake" THEN "scam"
  ELSE IF result.confidence > LegitPercent THEN "legit"
  ELSE "suspicious"

\* displayResult(result, jobData): one more job-title element each time.
displayResult(p, result) ==
  [p EXCEPT !.view = [kind |-> "result", verdict |-> simpleVerdict(result),
                      analysis |-> result],
            !.titles = @ + 1, !.shown = TRUE]

\* displayError(message)
displayError(p) ==
  [p EXCEPT !.view = [kind |-> "error", verdict |-> Undef,
                      analysis |-> Undefined],
            !.shown = TRUE]

\* `finally` of the click handler.
simpleFinally(p) ==
  [p EXCEPT !.loading = FALSE, !.disabled = FALSE, !.busy = "idle"]

\* The click on analyzeBtn, up to its first await.
SimpleClick ==
  /\ ~simple.disabled
  /\ simple.titles < MaxTitles
  /\ simple' = [simple EXCEPT !.loading = TRUE, !.shown = FALSE,
                              !.disabled = TRUE, !.busy = "extracting"]
  /\ last' = "simple"
  /\ UNCHANGED << popup, relay, arg, url, lastUrl, analyzedUrls, isAnalyzing,
                  analysisTimeout, dom, buttons, msgs >>

\* The handler resumes with the result of executeScript (d) or a rejection.
SimpleExtracted(ok, d) ==
  /\ simple.busy = "extracting"
  /\ LET jobData == simpleExtractJobData(d) IN
     IF ok /\ jobData.text > 0
     THEN simple' = [simple EXCEPT !.busy = "fetching", !.jobText = jobData.text]
     ELSE simple' = simpleFinally(displayError(simple))
  /\ last' = "simple"
  /\ UNCHANGED << popup, relay, arg, url, lastUrl, analyzedUrls, isAnalyzing,
                  analysisTimeout, dom, buttons, msgs >>

\* analyzeJobWithAPI throws unless the fetch answers JSON that is an object;
\* displayResult throws on a reasoning that is no string.
simpleThrows(o) ==
  \/ o.kind # "json"
  \/ o.body.t \in {"null", "undefined"}
  \/ o.body.reasoning = "nonstring"

\* The fetch of analyzeJobWithAPI settles as o; the handler runs to its end.
SimpleSettle(o) ==
  /\ simple.busy = "fetching"
  /\ simple' = IF simpleThrows(o)
               THEN simpleFinally(displayError(simple))
               ELSE simpleFinally(displayResult(simple, [o.body EXCEPT !.tagged = TRUE]))
  /\ last' = "simple"
  /\ UNCHANGED << popup, relay, arg, url, lastUrl, analyzedUrls, isAnalyzing,
                  analysisTimeout, dom, buttons, msgs >>

SimpleNext ==
  \/ SimpleClick
  \/ \E ok \in BOOLEAN, d \in SimpleDocs : SimpleExtracted(ok, d)
  \/ \E o \in FetchOutcomes : SimpleSettle(o)

SimpleSpec == InitPopup /\ [][SimpleNext]_vars

\* --------------------------------------------------------------------- Spec
\* The automatic analysis of a page and the relay; no card is clicked.
Next ==
  \/ DetailMutation
  \/ \E u \in Urls : Navigate(u)
  \/ UrlChange
  \/ \E d \in Docs : analyzeCurrentJob(d)
  \/ \E m \in msgs : analyzeCurrentJobResume(m)
  \/ \E m \in msgs : RelayReceive(m)
  \/ \E m \in msgs, o \in FetchOutcomes : RelaySettle(m, o)
  \/ \E m \in msgs, how \in {"closed", "rejected"} : PortFails(m, how)
  \/ CloseBadge
  \/ InjectedMutation

Spec == Init /\ [][Next]_vars

\* Every message is delivered or fails, every fetch settles and every
\* awaiting analyzeCurrentJob resumes.
FairSpec ==
  /\ Spec
  /\ WF_vars(\E m \in msgs :
               RelayReceive(m) \/ \E how \in {"closed", "rejected"} : PortFails(m, how))
  /\ WF_vars(\E m \in msgs, o \in FetchOutcomes : RelaySettle(m, o))
  /\ WF_vars(\E m \in msgs : analyzeCurrentJobResume(m))

\* Moreover every pending timer of scheduleAnalysis fires.
FairTimerSpec ==
  /\ FairSpec
  /\ WF_vars(\E d \in Docs : analyzeCurrentJob(d))

\* The listing page with its cards next to one detail page: the automatic
\* analysis, the relay of browser-extension/background.js and the card
\* analyses, with one failing and two answering outcomes of the fetch.
CardFetchOutcomes ==
  { o \in FetchOutcomes :
      \/ o.kind = "reject"
      \/ o.kind = "json" /\ o.body.prediction = "fake"
      \/ o.kind = "json" /\ Truthy(o.body.error) }

CardPageDocs == { d \in Docs : d.main = 0 /\ d.siteDesc \in {0, 232} }

CardUrls == {UrlLinkedInSearch.url, UrlLinkedInView.url}

\* The cards that are clicked: those whose description element is too short,
\* so that extractJobDataFromCard takes the prefix of the card's own text.
CardClickDocs == { cd \in CardDocs : cd.description < CardShortDescription }

InitCards ==
  /\ Init
  /\ relay = "extension"
  /\ url = UrlLinkedInSearch.url

NextCards ==
  \/ DetailMutation
  \/ \E u \in CardUrls : Navigate(u)
  \/ UrlChange
  \/ \E d \in CardPageDocs : analyzeCurrentJob(d)
  \/ \E m \in msgs : analyzeCurrentJobResume(m)
  \/ \E m \in msgs : RelayReceive(m)
  \/ \E m \in msgs, o \in CardFetchOutcomes : RelaySettle(m, o)
  \/ \E m \in msgs : PortFails(m, "rejected")
  \/ \E c \in Cards, cd \in CardClickDocs : CardClick(c, cd)
  \/ \E m \in msgs : showFloatingAnalysisResume(m)
  \/ CloseBadge
  \/ CloseFloating

SpecCards == InitCards /\ [][NextCards]_vars

\* The cards of a listing page alone: every click, the relay and the code
\* after the await of showFloatingAnalysis.
NextCardsOnly ==
  \/ \E c \in Cards, cd \in CardDocs : CardClick(c, cd)
  \/ \E m \in msgs : RelayReceive(m)
  \/ \E m \in msgs, o \in CardFetchOutcomes : RelaySettle(m, o)
  \/ \E m \in msgs, how \in {"closed", "rejected"} : PortFails(m, how)
  \/ \E m \in msgs : showFloatingAnalysisResume(m)
  \/ CloseFloating

CardSpec == InitCards /\ [][NextCardsOnly]_vars

\* A step of the call that card c started: the relay takes the message, the
\* fetch settles, the port fails, or the caller resumes.
CardCallStep(c) ==
  \E m \in msgs :
    /\ m.src = "card"
    /\ m.card = c
    /\ \/ RelayReceive(m)
       \/ \E o \in CardFetchOutcomes : RelaySettle(m, o)
       \/ \E how \in {"closed", "rejected"} : PortFails(m, how)
       \/ showFloatingAnalysisResume(m)

\* Moreover the call of every card goes on: the relay answers or the call
\* fails, and the caller resumes.
FairCardSpec ==
  /\ CardSpec
  /\ \A c \in Cards : WF_vars(CardCallStep(c))

\* ------------------------------------------------------ the presenters alone
\* Results without an error that the service can answer: either prediction,
\* with confidences around the thresholds of the presenters (percent).
Confidences == {50, 70, 71, 80, 81, 95}

Results ==
  { Value("object", Undef, p, c, "text") :
      p \in {"fake", "real"}, c \in Confidences }

InitVerdict ==
  /\ InitAnalyzer
  /\ relay = "extension"
  /\ url = UrlIndeedView.url
  /\ arg \in Results

\* displayResults(arg, jobData) on the page.
ShowBadge ==
  /\ dom' = displayResults(dom, arg)
  /\ last' = "badge"
  /\ UNCHANGED << relay, arg, url, lastUrl, analyzedUrls, isAnalyzing,
                  analysisTimeout, buttons, msgs, popup, simple >>

\* showFloatingAnalysis for card c, answered with arg.
ShowFloating(c) ==
  /\ dom' = appendFloating(removeExistingFloating(dom),
               updateFloatingAnalysis(
                 [id |-> c, view |-> "analyzing", verdict |-> Undef], arg))
  /\ last' = "floating"
  /\ UNCHANGED << relay, arg, url, lastUrl, analyzedUrls, isAnalyzing,
                  analysisTimeout, buttons, msgs, popup, simple >>

\* showResult(arg, jobData) of the popup with tabs.
ShowPopup ==
  /\ popup' = popupShowResult(popup, arg)
  /\ last' = "popup"
  /\ UNCHANGED << relay, arg, url, lastUrl, analyzedUrls, isAnalyzing,
                  analysisTimeout, dom, buttons, msgs, simple >>

\* displayResult(arg, jobData) of popup.js.
ShowSimple ==
  /\ simple.titles < MaxTitles
  /\ simple' = displayResult(simple, [arg EXCEPT !.tagged = TRUE])
  /\ last' = "simple"
  /\ UNCHANGED << relay, arg, url, lastUrl, analyzedUrls, isAnalyzing,
                  analysisTimeout, dom, buttons, msgs, popup >>

NextVerdict ==
  \/ ShowBadge
  \/ \E c \in Cards : ShowFloating(c)
  \/ ShowPopup
  \/ ShowSimple
  \/ CloseBadge
  \/ CloseFloating

VerdictSpec == InitVerdict /\ [][NextVerdict]_vars

\* ------------------------------------------------------ the extractors alone
\* Documents of a job page: the lengths of what the hostname selectors find
\* (title, company, siteDesc), of the first h1, of the text of the generic
\* content container (main) and of the URL.
ExtractDocs ==
  [title : {0, 20}, company : {0, 10}, siteDesc : {0, 199, 200, 4100},
   h1 : {12}, main : {0, 500, 501, 5000}, url : {40}]

\* The jobData literal each extractor starts from.
NoJobData == [title |-> 0, company |-> 0, description |-> 0, text |-> 0]

\* The document as popup.js reads it: one selector per field.
AsSimpleDoc(d) ==
  [title |-> d.title, company |-> d.company, description |-> d.siteDesc]

InitExtract ==
  /\ InitAnalyzer
  /\ relay = "extension"
  /\ arg \in { [t |-> "doc", doc |-> d, by |-> "none", out |-> NoJobData] :
                 d \in ExtractDocs }

\* extractJobData() of the content script runs on the document.
ExtractContent ==
  /\ arg' = [arg EXCEPT !.by = "content",
                         !.out = extractJobData(url, arg.doc)]
  /\ last' = "extracted"
  /\ UNCHANGED << relay, url, lastUrl, analyzedUrls, isAnalyzing,
                  analysisTimeout, dom, buttons, msgs, popup, simple >>

\* extractJobDataFromPage() of the popup with tabs runs on the document.
ExtractPopup ==
  /\ arg' = [arg EXCEPT !.by = "popup",
                         !.out = extractJobDataFromPage(arg.doc)]
  /\ last' = "extracted"
  /\ UNCHANGED << relay, url, lastUrl, analyzedUrls, isAnalyzing,
                  analysisTimeout, dom, buttons, msgs, popup, simple >>

\* extractJobData() of popup.js runs on the document.
ExtractSimple ==
  /\ arg' = [arg EXCEPT !.by = "simple",
                         !.out = simpleExtractJobData(AsSimpleDoc(arg.doc))]
  /\ last' = "extracted"
  /\ UNCHANGED << relay, url, lastUrl, analyzedUrls, isAnalyzing,
                  analysisTimeout, dom, buttons, msgs, popup, simple >>

NextExtract == ExtractContent \/ ExtractPopup \/ ExtractSimple

ExtractSpec == InitExtract /\ [][NextExtract]_vars

\* ------------------------------------------------------ the classifier alone
\* Every outcome of the substring tests of getPageType and of its lookup
\* of a result-list container that a URL and a document can give: a test
\* on the path implies the same test on the URL, and '/jobs/view/' in the
\* path implies '/jobs/' and '/view/' in it.
PageTests ==
  { p \in [urlViewjob : BOOLEAN, urlJobSlash : BOOLEAN, urlJk : BOOLEAN,
            pathJobsView : BOOLEAN, pathJobCap : BOOLEAN,
            pathDashJobs : BOOLEAN, urlJobsSlash : BOOLEAN,
            urlViewSlash : BOOLEAN, pathJobsSearch : BOOLEAN,
            pathJobsSlash : BOOLEAN, pathViewSlash : BOOLEAN,
            urlJobsQ : BOOLEAN, urlJobsSearchQ : BOOLEAN,
            urlJobSearch : BOOLEAN, resultList : BOOLEAN] :
      /\ p.pathJobsSlash => p.urlJobsSlash
      /\ p.pathViewSlash => p.urlViewSlash
      /\ p.pathJobsView => p.pathJobsSlash /\ p.pathViewSlash }

InitClassify ==
  /\ InitAnalyzer
  /\ relay = "extension"
  /\ url = UrlIndeedView.url
  /\ arg \in { [t |-> "page", page |-> p, out |-> "none"] : p \in PageTests }

\* getPageType() runs on the page.
Classify ==
  /\ arg.out = "none"
  /\ arg' = [arg EXCEPT !.out = pageType(arg.page)]
  /\ last' = "classified"
  /\ UNCHANGED << relay, url, lastUrl, analyzedUrls, isAnalyzing,
                  analysisTimeout, dom, buttons, msgs, popup, simple >>

ClassifySpec == InitClassify /\ [][Classify]_vars

\* ----------------------------------------------------------------- debounce
\* The timers of scheduleAnalysis with their clock.  arg holds now (ms), the
\* handle this.analysisTimeout (0: never set), the timers not yet fired or
\* cleared, and three counters: the time of the last trigger (-1: none), the
\* triggers of the burst it belongs to and the callbacks run since.
TickMs == 1000

TimerIds == 1..(MaxBurst + 1)

InitDebounce ==
  /\ InitAnalyzer
  /\ relay = "extension"
  /\ url = UrlIndeedView.url
  /\ arg = [t |-> "debounce", now |-> 0, analysisTimeout |-> 0,
            timers |-> {}, lastTrigger |-> -1, burst |-> 0, runs |-> 0]

\* scheduleAnalysis() that sets a timer and leaves the previous one.
clearTimeoutMissing(timers, handle) == timers

\* `if (this.analysisTimeout) clearTimeout(this.analysisTimeout);`
clearTimeout(timers, handle) == { tm \in timers : tm.id # handle }

\* setTimeout(callback, 2000): a timer with an id no live timer or handle has.
setTimeout(timers, handle, now) ==
  [id  |-> CHOOSE i \in TimerIds :
             /\ i # handle
             /\ \A tm \in timers : tm.id # i
             /\ \A j \in TimerIds :
                  (j # handle /\ \A tm \in timers : tm.id # j) => i <= j,
   due |-> now + AnalysisDelay]

InBurst == arg.lastTrigger >= 0 /\ arg.now - arg.lastTrigger < AnalysisDelay

\* scheduleAnalysis(), called by a trigger (observer callback, URL change).
scheduleAnalysis ==
  /\ InBurst => arg.burst < MaxBurst
  /\ LET kept  == clearTimeout(arg.timers, arg.analysisTimeout)
         timer == setTimeout(kept, arg.analysisTimeout, arg.now)
     IN arg' = [arg EXCEPT !.timers = kept \cup {timer},
                           !.analysisTimeout = timer.id,
                           !.lastTrigger = arg.now,
                           !.burst = IF InBurst THEN @ + 1 ELSE 1,
                           !.runs = 0]
  /\ last' = "scheduled"
  /\ UNCHANGED << relay, url, lastUrl, analyzedUrls, isAnalyzing,
                  analysisTimeout, dom, buttons, msgs, popup, simple >>

\* A timer that is due runs its callback, `this.analyzeCurrentJob()`.
TimerFires ==
  /\ \E tm \in arg.timers :
       /\ tm.due <= arg.now
       /\ arg' = [arg EXCEPT !.timers = @ \ {tm}, !.runs = @ + 1]
  /\ last' = "fired"
  /\ UNCHANGED << relay, url, lastUrl, analyzedUrls, isAnalyzing,
                  analysisTimeout, dom, buttons, msgs, popup, simple >>

\* Time passes once every timer that is due has fired.
Tick ==
  /\ arg.now < MaxTicks * TickMs
  /\ \A tm \in arg.timers : tm.due > arg.now
  /\ arg' = [arg EXCEPT !.now = @ + TickMs]
  /\ last' = "tick"
  /\ UNCHANGED << relay, url, lastUrl, analyzedUrls, isAnalyzing,
                  analysisTimeout, dom, buttons, msgs, popup, simple >>

NextDebounce ==
  \/ scheduleAnalysis
  \/ TimerFires
  \/ Tick

DebounceSpec == InitDebounce /\ [][NextDebounce]_vars

\* ------------------------------------------------------------------ listing
\* The listing page: its cards, the buttons in them, the listing
\* MutationObserver and the timers of its re-scans.  arg holds, per card,
\* whether looksLikeJobCard(card) holds (looks), whether the observer takes
\* the card for a job card when the page adds it (noticed), and the number
\* of Analyze buttons in it (btn); the cards in the document (present);
\* the batch of mutation records awaiting the callback (records: "none",
\* "cards" when one added node passes isJobCard or hasJobCards, "other");
\* the re-scan timers pending (timers); whether a floating panel awaits
\* its answer (panel); and two counters, the re-scans run (scans) and the
\* clicks (clicks).
\* The test for a button in the card left out.
hasAnalyzeButtonIgnored(btn, c) == FALSE

\* card.querySelector('.jobtrust-analyze-btn')
hasAnalyzeButton(btn, c) == btn[c] > 0

\* allCards: the five querySelectorAll lists one after the other; a card
\* that matches a site selector and a generic one is in it twice.
allCards(present) ==
  LET RECURSIVE listOf(_)
      listOf(S) == IF S = {} THEN << >>
                   ELSE LET c == CHOOSE x \in S : \A y \in S : x <= y
                        IN << c >> \o listOf(S \ {c})
  IN listOf(present) \o listOf(present)

\* allCards.forEach(...): addAnalyzeButtonToCard for every card that has no
\* button and looks like a job card.
RECURSIVE forEachCard(_, _, _)
forEachCard(cards, btn, looks) ==
  IF cards = << >> THEN btn
  ELSE LET card == Head(cards)
       IN forEachCard(Tail(cards),
            IF hasAnalyzeButton(btn, card) \/ ~looks[card] THEN btn
            ELSE [btn EXCEPT ![card] = @ + 1],
            looks)

\* init() on a listing page: setupListingPageObserver().
InitListing ==
  /\ InitAnalyzer
  /\ relay = "extension"
  /\ url = UrlLinkedInSearch.url
  /\ \E looks \in [Cards -> BOOLEAN], noticed \in [Cards -> BOOLEAN],
        present \in SUBSET Cards :
       arg = [t |-> "listing", looks |-> looks, noticed |-> noticed,
              present |-> present,
              \* setupListingPageObserver: addAnalyzeButtonsToPreviews()
              \* runs before observer.observe(), so no record is queued
              btn |-> forEachCard(allCards(present),
                                  [c \in Cards |-> 0], looks),
              records |-> "none", timers |-> 0, panel |-> FALSE,
              scans |-> 0, clicks |-> 0]

ListingFrame ==
  UNCHANGED << relay, url, lastUrl, analyzedUrls, isAnalyzing,
               analysisTimeout, dom, buttons, msgs, popup, simple >>

\* The page adds a card (infinite scroll).
PageAddsCard(c) ==
  /\ arg.records = "none"
  /\ c \notin arg.present
  /\ arg' = [arg EXCEPT !.present = @ \cup {c},
                        !.records = IF arg.noticed[c] THEN "cards" ELSE "other"]
  /\ last' = "page-adds-card"
  /\ ListingFrame

\* The callback of the listing MutationObserver: a timer of 500 ms for a
\* re-scan when an added node is or holds a job card.
listingObserver ==
  /\ arg.records # "none"
  /\ arg' = [arg EXCEPT !.records = "none",
                        !.timers = IF arg.records = "cards" THEN @ + 1 ELSE @]
  /\ last' = "observed"
  /\ ListingFrame

\* The timer of a re-scan fires: addAnalyzeButtonsToPreviews().  A button
\* it inserts has the class jobtrust-analyze-btn, which isJobCard accepts.
RescanTimer ==
  /\ arg.records = "none"
  /\ arg.timers > 0
  /\ LET btn == forEachCard(allCards(arg.present), arg.btn, arg.looks)
     IN arg' = [arg EXCEPT !.timers = @ - 1,
                           !.scans = @ + 1,
                           !.btn = btn,
                           !.records = IF btn # arg.btn THEN "cards" ELSE "none"]
  /\ last' = "rescan"
  /\ ListingFrame

\* A click on the button of card c: showFloatingAnalysis removes the panel
\* in the page and appends a new one, whose spinner has the class
\* jobtrust-spinner, which hasJobCards accepts.
ListingClick(c) ==
  /\ arg.records = "none"
  /\ arg.btn[c] > 0
  /\ arg.clicks < MaxClicks
  /\ arg' = [arg EXCEPT !.clicks = @ + 1, !.panel = TRUE, !.records = "cards"]
  /\ last' = "listing-click"
  /\ ListingFrame

\* The panel gets its result or error view (floatingDiv.innerHTML = ...);
\* the added nodes have no class, and isJobCard accepts one when its text
\* has 'Apply', '$', '/yr' or '/hr' (textual).
ListingPanelUpdate(textual) ==
  /\ arg.records = "none"
  /\ arg.panel
  /\ arg' = [arg EXCEPT !.panel = FALSE,
                        !.records = IF textual THEN "cards" ELSE "other"]
  /\ last' = "panel-update"
  /\ ListingFrame

NextListing ==
  \/ \E c \in Cards : PageAddsCard(c)
  \/ listingObserver
  \/ RescanTimer
  \/ \E c \in Cards : ListingClick(c)
  \/ \E textual \in BOOLEAN : ListingPanelUpdate(textual)

\* The callback of an observer and a timer that is due run.
ListingSpec ==
  /\ InitListing
  /\ [][NextListing]_vars
  /\ WF_vars(listingObserver)
  /\ WF_vars(RescanTimer)

\* ------------------------------------------------------------------- claims

\* The step resumes the caller of message m.
Resumed(m) == m \in msgs /\ \A n \in msgs' : ~SameCall(n, m)

\* The step sends a message.
Sends == \E n \in msgs' : \A m \in msgs : ~SameCall(m, n)

\* The step is the timer callback of scheduleAnalysis.
AutoAttempt == analysisTimeout /\ ~analysisTimeout'

FetchFailures == {"reject", "status", "badjson"}

\* C1: a URL enters analyzedUrls only in the step that resumes an automatic
\* analysis of that URL with a response that is present and has no error;
\* a resumed analysis whose response is absent, error-shaped or a rejection
\* leaves analyzedUrls unchanged.
C1_OnlySuccessMarksDone ==
  [][ /\ \A u \in analyzedUrls' \ analyzedUrls :
           \E m \in InFlightAuto :
             /\ Resumed(m)
             /\ m.url = u
             /\ m.st = "answered"
             /\ ~IsErrorResponse(Response(m))
      /\ \A m \in InFlightAuto :
           (Resumed(m) /\ (m.st # "answered" \/ IsErrorResponse(Response(m))))
             => analyzedUrls' = analyzedUrls ]_vars

\* C2: at most one automatic analysis awaits its answer, and a timer
\* callback that runs while one does sends nothing and leaves isAnalyzing
\* and analyzedUrls as they are.
C2_OneInFlight ==
  /\ [](Cardinality(InFlightAuto) <= 1)
  /\ [][ (AutoAttempt /\ InFlightAuto # {}) =>
           /\ ~Sends
           /\ isAnalyzing' = isAnalyzing
           /\ analyzedUrls' = analyzedUrls ]_vars

C2_Witness == last = "in-flight" /\ InFlightAuto # {}

\* C3: a timer callback on a URL of analyzedUrls sends nothing, leaves
\* analyzedUrls and isAnalyzing unchanged and, with no analysis in flight,
\* only removes the indicators; on a URL outside analyzedUrls with no
\* analysis in flight it goes on to the extraction (it sends the message or
\* renders the insufficient-text error).
C3_DedupGate ==
  [][ AutoAttempt =>
        /\ (url \in analyzedUrls) =>
              /\ ~Sends
              /\ analyzedUrls' = analyzedUrls
              /\ isAnalyzing' = isAnalyzing
              /\ ~isAnalyzing => dom' = removeExistingIndicators(dom)
        /\ (url \notin analyzedUrls /\ ~isAnalyzing) =>
              \/ Sends /\ isAnalyzing'
              \/ ~Sends /\ dom'.badge.kind = "error" ]_vars

C3_Witness == last = "dedup" /\ url \in analyzedUrls /\ ~isAnalyzing

\* C4: whatever analyzedUrls and isAnalyzing are, a click on an enabled
\* Analyze button whose extracted text is longer than 50 characters can
\* only send an analyzeJob message for that card.
C4_ManualNotGated ==
  \A c \in Cards, cd \in CardDocs :
    ( /\ buttons[c] = "enabled"
      /\ Cardinality(msgs) < MaxMsgs
      /\ extractJobDataFromCard(cd).text > CardMinText )
    => /\ ENABLED CardClick(c, cd)
       /\ ~ENABLED (CardClick(c, cd) /\ ~Sends)

C4_Witness ==
  /\ last = "card-sent"
  /\ isAnalyzing
  /\ url \in analyzedUrls
  /\ \E m \in msgs : m.src = "card"

\* C5: a relay that has settled its fetch has called sendResponse exactly
\* once, with an object carrying a non-empty error when the fetch failed
\* (rejection, non-success status, invalid JSON); the sender that resumes
\* from a rejected sendMessage renders the error badge and clears its flag.
C5_RelayAnswersOnce ==
  /\ [](\A m \in msgs :
          /\ Len(m.calls) <= 1
          /\ m.outcome # "none" => Len(m.calls) = 1 /\ m.st = "answered"
          /\ m.outcome \in FetchFailures =>
               /\ Len(m.calls) = 1
               /\ Head(m.calls).t = "object"
               /\ Truthy(Head(m.calls).error))
  /\ [][ \A m \in InFlightAuto :
           (Resumed(m) /\ m.st = "rejected") =>
              dom'.badge.kind = "error" /\ ~isAnalyzing' ]_vars

C5_Witness ==
  \E m \in msgs : m.outcome = "badjson" /\ m.st = "answered"

\* A result object that carries an error field.
HasErrorField(v) == v.t = "object" /\ v.error # Undef

\* C6: neither popup shows the result state for a result object that
\* carries an error field.
C6_ErrorNeverResult ==
  /\ popup.view.kind = "result" => ~HasErrorField(popup.view.analysis)
  /\ simple.view.kind = "result" => ~HasErrorField(simple.view.analysis)

\* An AnalysisResult-shaped value.
WellShaped(v) ==
  /\ v.t = "object"
  /\ v.prediction \in {"fake", "real"}
  /\ v.confidence >= 0

\* C7: an automatic analysis that resumes with a JSON body that is not
\* AnalysisResult-shaped ends with the error badge.
C7_MalformedIsError ==
  [][ \A m \in InFlightAuto :
        ( /\ Resumed(m)
          /\ m.st = "answered"
          /\ m.outcome = "json"
          /\ ~WellShaped(Response(m)) )
        => dom'.badge.kind = "error" ]_vars

\* The step ends an automatic attempt that passed both guards.
EndOfAttempt ==
  \/ isAnalyzing /\ ~isAnalyzing'
  \/ AutoAttempt /\ ~isAnalyzing /\ url \notin analyzedUrls /\ ~isAnalyzing'

\* C8: every automatic attempt that passed the guards ends, and it ends
\* with a badge in the page, no loading indicator and isAnalyzing false.
C8_EndsRendered ==
  /\ isAnalyzing ~> ~isAnalyzing
  /\ [][ EndOfAttempt =>
           /\ dom'.badge.kind \in {"result", "error"}
           /\ dom'.loading = "none"
           /\ InFlightAuto' = {} ]_vars

C8_Witness ==
  /\ last \in {"result", "error-response", "rejected", "threw"}
  /\ ~isAnalyzing
  /\ dom.badge.kind # "none"

\* C9: no step removes a URL from analyzedUrls.
C9_Monotonic == [][analyzedUrls \subseteq analyzedUrls']_vars

C9_Witness ==
  /\ Cardinality(analyzedUrls) >= 2
  /\ last = "card-done"

\* C10: when an automatic analysis resumes after the page has left the URL
\* it started on, a result badge is rendered only if the loading element
\* the analysis started with is still in the page.
C10_StaleGuarded ==
  [][ \A m \in InFlightAuto :
        (Resumed(m) /\ url # m.url /\ dom'.badge.kind = "result") => m.ip ]_vars

\* The calls of showFloatingAnalysis that await their answer.
InFlightCards == { m \in msgs : m.src = "card" }

\* C11: a card analysis that resumes writes its result or error into the
\* panel it created and leaves the panel of any other analysis as it is;
\* no step that starts, relays or ends a card analysis changes analyzedUrls
\* or isAnalyzing.
C11_PanelsIndependent ==
  [][ /\ \A m \in InFlightCards :
           Resumed(m) =>
             /\ dom.floating.id # m.id => dom'.floating = dom.floating
             /\ dom.floating.id = m.id =>
                   /\ dom'.floating.id = m.id
                   /\ dom'.floating.view \in {"result", "error"}
      /\ InFlightCards' # InFlightCards =>
           /\ analyzedUrls' = analyzedUrls
           /\ isAnalyzing' = isAnalyzing ]_vars

\* One card analysis has just ended while the panel of another one, still
\* awaiting its answer, is in the page.
C11_Witness ==
  /\ last = "card-done"
  /\ \E m \in InFlightCards :
       dom.floating.id = m.id /\ dom.floating.view = "analyzing"

\* A step of the automatic analysis: a trigger that shows the loading
\* indicator, the timer callback, or the code after the await.
AutoStep ==
  \/ DetailMutation
  \/ UrlChange
  \/ \E d \in Docs : analyzeCurrentJob(d)
  \/ \E m \in msgs : analyzeCurrentJobResume(m)

\* A step of a card analysis: the click or the code after the await.
ManualStep ==
  \/ \E c \in Cards, cd \in CardDocs : CardClick(c, cd)
  \/ \E m \in msgs : showFloatingAnalysisResume(m)

\* C12: no step of the automatic analysis removes or alters the floating
\* panel of a card analysis, and no step of a card analysis removes or
\* alters the loading indicator or the badge of the automatic analysis.
C12_NoInterference ==
  [][ /\ AutoStep => dom'.floating = dom.floating
      /\ ManualStep => /\ dom'.loading = dom.loading
                       /\ dom'.badge = dom.badge ]_vars

\* C13: the page never holds two elements with the id jobtrust-loading, two
\* with the id jobtrust-badge or two with the id jobtrust-floating; an
\* element of a kind is in the page exactly when the lookup by its id finds
\* one.
C13_AtMostOneOfEach ==
  /\ dom.nLoading <= 1 /\ (dom.nLoading = 1) = (dom.loading # "none")
  /\ dom.nBadge <= 1 /\ (dom.nBadge = 1) = (dom.badge.kind # "none")
  /\ dom.nFloating <= 1 /\ (dom.nFloating = 1) = (dom.floating.view # "none")

\* A badge is in the page next to the panel of the second card clicked,
\* which replaced the panel of an analysis that still awaits its answer.
C13_Witness ==
  /\ dom.nBadge = 1
  /\ dom.nFloating = 1
  /\ \E m \in InFlightCards : dom.floating.id # m.id /\ dom.floating.id # 0

\* The verdict named by one presenter's wording, in the three states of
\* the result: scam, legit, suspicious.
VerdictState(v) ==
  CASE v = "safe" -> "legit"
    [] v = "caution" -> "suspicious"
    [] OTHER -> v

\* The one function of (prediction, confidence) every presenter is to render.
OneVerdict(a) ==
  IF a.prediction = "fake" THEN "scam"
  ELSE IF a.confidence > 80 THEN "legit"
  ELSE "suspicious"

\* C14: whichever presenter shows the result arg (page badge, floating
\* panel, either popup), it shows the scam state for prediction "fake",
\* else the legitimate state for a confidence above 0.8, else the
\* suspicious state.
C14_SameVerdict ==
  /\ dom.badge.kind = "result" =>
       VerdictState(dom.badge.verdict) = OneVerdict(arg)
  /\ dom.floating.view = "result" =>
       VerdictState(dom.floating.verdict) = OneVerdict(arg)
  /\ popup.view.kind = "result" =>
       VerdictState(popup.view.verdict) = OneVerdict(arg)
  /\ simple.view.kind = "result" =>
       VerdictState(simple.view.verdict) = OneVerdict(arg)

\* C15: a click on the manual Analyze button with a trimmed text shorter
\* than 50 characters shows the status message, starts no request and does
\* not show the loading state; with 50 characters or more it shows the
\* loading state and starts exactly one request, which carries that text.
C15_ManualValidated ==
  [][ \A len \in ManualLens :
        analyzeTextInput(len) =>
          IF len < 50
          THEN /\ popup'.status
               /\ popup'.reqs = popup.reqs
               /\ popup'.loading = popup.loading
               /\ popup'.shown = popup.shown
          ELSE /\ popup.reqs \subseteq popup'.reqs
               /\ Cardinality(popup'.reqs \ popup.reqs) = 1
               /\ \A r \in popup'.reqs \ popup.reqs :
                    r.st = "fetching" /\ r.jobText = Min(len, 4000)
               /\ popup'.loading ]_vars

\* A text of 49 characters has been rejected and the request of a text of
\* exactly 50 characters is under way.
C15_Witness ==
  /\ popup.status
  /\ \E r \in popup.reqs : r.st = "fetching" /\ r.jobText = 50

\* C16: the job_text of every request to the classification service is at
\* most 4000 characters long: the fetch of the relay for a message of the
\* content script, and the fetch of either popup.
C16_TransmittedTruncated ==
  /\ \A m \in msgs : m.st \in {"fetching", "answered"} => m.jobText <= 4000
  /\ \A r \in popup.reqs : r.st = "fetching" => r.jobText <= 4000
  /\ simple.busy = "fetching" => simple.jobText <= 4000

\* C17: the text of the record a page extractor returns is at most 4000
\* characters long, whatever the document holds.
C17_ExtractorsTruncate ==
  (arg.t = "doc" /\ arg.by # "none") => arg.out.text <= 4000

\* The descriptions an extractor can take from the generic content
\* container of document d: its text, whole, cut to 2000 characters, or
\* only when it is long enough.
FromContainer(d) == {d.main, Min(d.main, 2000), getDescriptionFallback(d)}

\* C19: an extractor that finds no description, or one shorter than 200
\* characters, with the hostname selectors returns the description taken
\* from the generic content container; a description of 200 characters or
\* more is returned as found.
C19_DescriptionFallback ==
  (arg.t = "doc" /\ arg.by # "none") =>
    IF arg.doc.siteDesc < 200
    THEN arg.out.description \in FromContainer(arg.doc)
    ELSE arg.out.description = arg.doc.siteDesc

\* C18: getPageType returns 'job-detail' for every page that matches a
\* detail pattern, also when it matches a listing pattern or holds a
\* result-list container; it returns 'job-listing' only when no detail
\* pattern matches and a listing pattern does, and 'unknown' only when
\* neither matches.
C18_DetailFirst ==
  (arg.t = "page" /\ arg.out # "none") =>
    /\ MatchesDetail(arg.page) => arg.out = "job-detail"
    /\ arg.out = "job-listing" =>
          ~MatchesDetail(arg.page) /\ MatchesListing(arg.page)
    /\ arg.out = "unknown" =>
          ~MatchesDetail(arg.page) /\ ~MatchesListing(arg.page)
    /\ arg.out \in {"job-detail", "job-listing", "unknown"}

\* A page whose URL has '/viewjob' and which holds a result-list container
\* has been classified.
C18_Witness ==
  /\ arg.t = "page"
  /\ arg.out = "job-detail"
  /\ arg.page.urlViewjob
  /\ arg.page.resultList
  /\ MatchesListing(arg.page)

\* C20: an analyzeJob message of the automatic analysis is sent, and an
\* analysis is scheduled where none was pending, only while getPageType()
\* classifies the current page as 'job-detail'.
C20_ClassifierGates ==
  [][ /\ (\E n \in InFlightAuto' : \A m \in msgs : ~SameCall(m, n)) =>
           getPageType(url) = "job-detail"
      /\ (~analysisTimeout /\ analysisTimeout') =>
           getPageType(url) = "job-detail" ]_vars

\* C21: a click on a card sends an analyzeJob message only when the text of
\* the extracted record is longer than 50 characters, and a click on a card
\* from which no field could be extracted sends nothing and leaves the
\* button enabled.
C21_CardInsufficient ==
  [][ \A c \in Cards, cd \in CardDocs :
        CardClick(c, cd) =>
          /\ Sends => extractJobDataFromCard(cd).text > 50
          /\ cd = EmptyCard =>
                /\ ~Sends
                /\ buttons'[c] = "enabled"
                /\ last' = "card-insufficient" ]_vars

\* The page has moved to the job-detail URL u, which is not in analyzedUrls,
\* the URL listener has seen it and an analysis is scheduled, while the
\* automatic analysis of another URL awaits its answer.
NavigatedInFlight(u) ==
  /\ url = u
  /\ lastUrl = u
  /\ analysisTimeout
  /\ getPageType(u) = "job-detail"
  /\ u \notin analyzedUrls
  /\ \E m \in InFlightAuto : m.url # u

\* An automatic analysis of u has run (its message awaits the answer, or it
\* rendered the error for a text too short), or the page has left u.
AnalysisRan(u) ==
  \/ \E m \in InFlightAuto : m.url = u
  \/ last = "insufficient" /\ url = u
  \/ url # u

\* C22: a job-detail URL reached while the analysis of the previous URL is
\* in flight is analysed eventually, with no further navigation.
C22_NewUrlNotLost ==
  \A u \in Urls : NavigatedInFlight(u) ~> AnalysisRan(u)

\* C23: no cycle is started by the mutation record of an element the
\* extension inserted itself, and a result badge leaves the page only by
\* its Close button, by a trigger of the page (mutation of its content,
\* URL change) or by the automatic analysis such a trigger scheduled.
C23_NoSelfTrigger ==
  [][ /\ ~InjectedMutation
      /\ (dom.badge.kind = "result" /\ dom'.badge.kind # "result") =>
           \/ CloseBadge
           \/ DetailMutation
           \/ UrlChange
           \/ \E d \in Docs : analyzeCurrentJob(d)
           \/ \E m \in msgs : analyzeCurrentJobResume(m) ]_vars

\* C24: what an automatic analysis adds to analyzedUrls is the URL read at
\* its start, also when the page is on another URL at the answer.
C24_MarksStartUrl ==
  [][ \A m \in msgs :
        analyzeCurrentJobResume(m) =>
          /\ analyzedUrls' \subseteq analyzedUrls \cup {m.url}
          /\ last' = "result" => m.url \in analyzedUrls' ]_vars

C24_Witness ==
  /\ last = "result"
  /\ url \notin analyzedUrls
  /\ analyzedUrls # {}

\* C25: isAnalyzing is true exactly while an automatic analysis that
\* passed both guards has not reached its finally block, and every way out
\* of such an analysis (answer rendered, exception, text too short) leaves
\* it false.
C25_FlagTracksAnalysis ==
  /\ [](isAnalyzing <=> InFlightAuto # {})
  /\ [][ /\ (\E m \in msgs : analyzeCurrentJobResume(m)) => ~isAnalyzing'
         /\ (AutoAttempt /\ last' = "insufficient") => ~isAnalyzing' ]_vars

C25_Witness ==
  /\ last = "threw"
  /\ ~isAnalyzing
  /\ InFlightAuto = {}

\* C26: at most one timer of scheduleAnalysis is pending; a callback runs
\* only when the delay has passed since the last trigger, and once the
\* delay after the last trigger of a burst is over the burst has run
\* analyzeCurrentJob exactly once.
C26_Debounce ==
  /\ [](Cardinality(arg.timers) <= 1)
  /\ [](arg.runs <= 1)
  /\ []((arg.lastTrigger >= 0 /\ arg.now > arg.lastTrigger + AnalysisDelay)
          => (arg.runs = 1 /\ arg.timers = {}))
  /\ [][ TimerFires => arg.now = arg.lastTrigger + AnalysisDelay ]_vars

C26_Witness ==
  /\ arg.burst = MaxBurst
  /\ arg.runs = 1
  /\ arg.timers = {}

C28_ButtonRestored ==
  /\ [][ \A m \in msgs :
           showFloatingAnalysisResume(m) => buttons'[m.card] = "enabled" ]_vars
  /\ \A c \in Cards : (buttons[c] = "disabled") ~> (buttons[c] = "enabled")

C28_Witness ==
  /\ last = "card-done"
  /\ dom.floating.view = "error"
  /\ \A c \in Cards : buttons[c] = "enabled"
  /\ msgs = {}

\* C29: whenever the result panel of the popup with tabs is displayed, what
\* it holds is the outcome of the analysis that was started last.
C29_LatestShown ==
  popup.shown => popup.shownOf = popup.latest

\* C30: the result panel of the popup of popup.js never holds more than one
\* job-title element, and none while it shows an error.
C30_OneJobTitle ==
  /\ simple.titles <= 1
  /\ simple.view.kind = "error" => simple.titles = 0

====
